---- MODULE Spec2Model ----
(***************************************************************************)
(* The launch task of src/src/tasks/launch.ts: start, doStart, caveProblem, *)
(* launchTypeForAction and appExt, as a state machine.  One action per     *)
(* synchronous segment of the async functions (from one await to the next);*)
(* the playtime timer callback is an action of its own that can only run   *)
(* while the main flow is suspended at `await launcher(...)`.               *)
(***************************************************************************)
EXTENDS Integers, Sequences, FiniteSets, TLC

(***************************************************************************)
(* Bounds of the model.                                                    *)
(***************************************************************************)
\* largest number of playtime ticks that fire during one launcher run
MaxTicks == 2
\* largest number of actions in a manifest
MaxActions == 2

(***************************************************************************)
(* Program constants.                                                      *)
(***************************************************************************)
\* launch.ts:299  const UPDATE_PLAYTIME_INTERVAL = 10;
UPDATE_PLAYTIME_INTERVAL == 10
\* launch.ts:317  if (secondsRunning > 2)
GraceSeconds == 2
\* launch.ts:307 / 316: milliseconds per second
MsPerSecond == 1000

\* JavaScript's undefined / null, for fields that hold a number otherwise
Undefined == -1
\* a string field that is not set
None == "none"

(***************************************************************************)
(* Strings as sequences of one-character strings, so that the regular      *)
(* expressions of launchTypeForAction are computed, not assumed.           *)
(***************************************************************************)
Lower(c) ==
  CASE c = "A" -> "a" [] c = "B" -> "b" [] c = "E" -> "e" [] c = "H" -> "h"
    [] c = "L" -> "l" [] c = "M" -> "m" [] c = "P" -> "p" [] c = "S" -> "s"
    [] c = "T" -> "t" [] c = "X" -> "x"
    [] OTHER -> c

LowerStr(s) == [i \in 1..Len(s) |-> Lower(s[i])]

\* /<suffix>$/i
EndsWithI(s, suffix) ==
  /\ Len(s) >= Len(suffix)
  /\ SubSeq(LowerStr(s), Len(s) - Len(suffix) + 1, Len(s)) = suffix

\* /^<prefix>/i
StartsWithI(s, prefix) ==
  /\ Len(s) >= Len(prefix)
  /\ SubSeq(LowerStr(s), 1, Len(prefix)) = prefix

\* index of the first occurrence of `needle` in s, 0 when there is none
IndexOf(s, needle) ==
  LET hits == {i \in 1..(Len(s) - Len(needle) + 1) :
                 SubSeq(s, i, i + Len(needle) - 1) = needle}
  IN IF hits = {} THEN 0 ELSE CHOOSE i \in hits : \A j \in hits : i <= j

\* String.prototype.replace with a non-global pattern: the first match only
ReplaceFirst(s, needle, by) ==
  LET i == IndexOf(s, needle)
  IN IF i = 0 THEN s
     ELSE SubSeq(s, 1, i - 1) \o by \o SubSeq(s, i + Len(needle), Len(s))

Platforms == {"osx", "windows", "linux"}

\* launch.ts:365-371
appExt(platform) ==
  CASE platform = "osx" -> <<".", "a", "p", "p">>
    [] platform = "windows" -> <<".", "e", "x", "e">>
    [] OTHER -> <<>>

ExtPlaceholder == <<"{", "{", "E", "X", "T", "}", "}">>

LaunchTypes == {"native", "html", "shell", "external"}

\* launch.ts:341  /\.(app|exe|bat|sh)$/i
IsNativeExtension(actionPath) ==
  \/ EndsWithI(actionPath, <<".", "a", "p", "p">>)
  \/ EndsWithI(actionPath, <<".", "e", "x", "e">>)
  \/ EndsWithI(actionPath, <<".", "b", "a", "t">>)
  \/ EndsWithI(actionPath, <<".", "s", "h">>)

\* launch.ts:345  /\.html?$/i
IsHtmlExtension(actionPath) ==
  \/ EndsWithI(actionPath, <<".", "h", "t", "m">>)
  \/ EndsWithI(actionPath, <<".", "h", "t", "m", "l">>)

\* launch.ts:349  /^https?:/i
IsUrl(actionPath) ==
  \/ StartsWithI(actionPath, <<"h", "t", "t", "p", ":">>)
  \/ StartsWithI(actionPath, <<"h", "t", "t", "p", "s", ":">>)

\* what fnout.path reports about a file
SniffResults == [linuxExecutable : BOOLEAN, macExecutable : BOOLEAN]

\* launch.ts:340-363; sniffRes is only read when the first three rules fail
launchTypeForAction(actionPath, platform, sniffRes) ==
  IF IsNativeExtension(actionPath) THEN "native"
  ELSE IF IsHtmlExtension(actionPath) THEN "html"
  ELSE IF IsUrl(actionPath) THEN "external"
  ELSE IF \/ (sniffRes.linuxExecutable /\ platform = "linux")
          \/ (sniffRes.macExecutable /\ platform = "osx")
       THEN "native"
  ELSE "shell"

\* whether launchTypeForAction reaches `await fnout.path(fullPath)` (line 356)
NeedsSniff(actionPath) ==
  ~(IsNativeExtension(actionPath) \/ IsHtmlExtension(actionPath) \/ IsUrl(actionPath))

(***************************************************************************)
(* The cave record.  launchType is None when the field is unset;           *)
(* executables is the length of the list (an absent list counts as 0, as   *)
(* `!cave.executables || cave.executables.length === 0` treats it);        *)
(* gamePath is whether a game path is recorded; secondsRun is Undefined or *)
(* a number of seconds; lastTouched is Undefined or a time in ms.          *)
(***************************************************************************)
\* the launch types a stored record can carry: the ones the configure task
\* writes, none at all, and one that no launcher is registered for
CaveLaunchTypes == {None, "native", "html", "shell", "bogus"}

\* the lengths of cave.executables: an empty list and a non-empty one
ExecutableCounts == {0, 1}

NoProblem == None

\* launch.ts:71-87
caveProblem(c) ==
  IF c.launchType = "native"
  THEN (IF c.executables = 0 THEN "game.install.no_executables_found" ELSE NoProblem)
  ELSE IF c.launchType = "html"
  THEN (IF ~c.gamePath THEN "game.install.no_html_index_found" ELSE NoProblem)
  ELSE NoProblem

\* market.saveEntity(table, id, fields): the fields given replace the stored
\* ones, every other field of the stored record is kept
saveEntity(record, fields) ==
  [k \in DOMAIN record |-> IF k \in DOMAIN fields THEN fields[k] ELSE record[k]]

\* `cave.secondsRun || 0` (launch.ts:304)
SecondsRunOrZero(c) == IF c.secondsRun = Undefined THEN 0 ELSE c.secondsRun

(***************************************************************************)
(* Manifests.  An action is {name, path, scope, args}; name "" is a        *)
(* missing name, scope None a missing scope and "" an empty one, args the  *)
(* number of arguments.                                                    *)
(***************************************************************************)
PathExt == <<"a">> \o ExtPlaceholder
PathHtml == <<"a", ".", "H", "T", "M", "L">>
PathUrl == <<"h", "t", "t", "p", "s", ":", "/", "/", "x">>
PathExe == <<"a", ".", "e", "x", "e">>

NoAction == [name |-> "", path |-> <<>>, scope |-> None, args |-> 0]

SampleActions ==
  { [name |-> "play", path |-> PathExt, scope |-> "profile:me", args |-> 1],
    [name |-> "play", path |-> PathHtml, scope |-> "", args |-> 0],
    [name |-> "editor", path |-> PathUrl, scope |-> None, args |-> 0],
    [name |-> "", path |-> PathExe, scope |-> None, args |-> 0] }

\* the values toml.parse can return (launch.ts:203)
Manifests == UNION {[1..n -> SampleActions] : n \in 0..MaxActions}

\* validateManifest (launch.ts:210) accepts a manifest whose actions all
\* have a name and a path
validateManifest(m) == \A i \in 1..Len(m) : m[i].name # "" /\ m[i].path # <<>>

\* underscore's findWhere(list, {name: n}): the first element whose name is n,
\* undefined when there is none (launch.ts:238)
findWhere(m, n) ==
  LET hits == {i \in 1..Len(m) : m[i].name = n}
  IN IF hits = {} THEN NoAction
     ELSE m[CHOOSE i \in hits : \A j \in hits : i <= j]

\* launch.ts:215-218: the index of the first action without a name, 0 if none
FirstNameless(m) ==
  LET bad == {i \in 1..Len(m) : m[i].name = ""}
  IN IF bad = {} THEN 0 ELSE CHOOSE i \in bad : \A j \in bad : i <= j

(***************************************************************************)
(* Time.  Date.now() is in milliseconds.  The launcher runs for one of the *)
(* durations below; the timer fires every UPDATE_PLAYTIME_INTERVAL * 1000. *)
(***************************************************************************)
\* Mutation of IntervalMs: the period is given in tenths of a second
IntervalMsInTenths == UPDATE_PLAYTIME_INTERVAL * 100

\* launch.ts:307  UPDATE_PLAYTIME_INTERVAL * 1000
IntervalMs == UPDATE_PLAYTIME_INTERVAL * MsPerSecond

SampleOffsets == {500, 1900, 2000, 2100}

Durations ==
  SampleOffsets \cup {k * IntervalMs : k \in 1..MaxTicks}
                \cup {MaxTicks * IntervalMs + 5000}

\* how long the prepare step can take
PrepareDurations == {3000}

\* the ids powerSaveBlocker.start can return: electron counts them from 0
BlockerIds == {0, 1}

\* what a launcher or a preparer can throw
Thrown == {"Crash", "Cancelled", "Error"}

NoError == None

VARIABLES
  pc,                  \* where start/doStart is suspended
  now,                 \* Date.now()
  preferences,         \* opts.preferences
  market,              \* the stored record of the cave (globalMarket)
  cave,                \* doStart's local `cave`
  launchType,          \* doStart's local `launchType`
  manifest,            \* doStart's local `manifest`
  manifestAction,      \* doStart's local `manifestAction` (NoAction: undefined)
  picked,              \* the index of the button the user pressed, 0 if none
  env,                 \* launchOpts.env, as its set of keys
  args,                \* launchOpts.args, as its length
  startedAt,           \* doStart's local `startedAt`
  interval,            \* the playtime timer: [active, next]
  powerSaveBlockerId,  \* doStart's local `powerSaveBlockerId`
  blockers,            \* the ids electron's powerSaveBlocker holds
  endsAt,              \* when the running launcher will settle
  e,                   \* the error in flight
  reason,              \* e.reason
  completion,          \* how doStart's try statement completes
  doStartResult,       \* "pending", "returned" or "threw"
  startResult,         \* "pending", "returned" or "threw"
  dispatchSecondsRun,  \* the stored secondsRun when the timer was started
  events,              \* the calls made so far, in order
  calls,               \* how often each call was made
  actionPath,          \* launchTypeForAction's parameter `actionPath`
  platform,            \* launchTypeForAction's local `platform`
  sniffRes             \* launchTypeForAction's local `sniffRes`

vars ==
  <<pc, now, preferences, market, cave, launchType, manifest,
    manifestAction, picked, env, args, startedAt, interval,
    powerSaveBlockerId, blockers, endsAt, e, reason, completion,
    doStartResult, startResult, dispatchSecondsRun, events, calls,
    actionPath, platform, sniffRes>>

\* the record of the calls made
history == <<events, calls>>

\* the variables of the run lifecycle (launch.ts:295-337)
lifecycleVars ==
  <<startedAt, interval, powerSaveBlockerId, blockers, endsAt, completion,
    dispatchSecondsRun>>

\* the parameter and the locals of a call of launchTypeForAction
\* (launch.ts:340-356); where doStart calls it, the call is one step and they
\* are not kept
classifierVars == <<actionPath, platform, sniffRes>>

\* launchTypeForAction is not running
NoSniff == [linuxExecutable |-> FALSE, macExecutable |-> FALSE]

\* the variables of manifest resolution (launch.ts:189-271)
manifestVars == <<manifest, manifestAction, picked, env, args>>

Caves ==
  [launchType : CaveLaunchTypes, executables : ExecutableCounts,
   gamePath : BOOLEAN, secondsRun : {Undefined, 40}, lastTouched : {Undefined}]

NoTimer == [active |-> FALSE, next |-> 0]

EventNames ==
  {"doStart", "explorer.open", "caveProblem", "problem", "configure",
   "configure.settled", "sf.exists", "sf.readFile", "validateManifest",
   "promisedModal", "promisedModal.settled", "cancel", "launchTypeForAction",
   "fnout.path", "subkey", "subkey.settled", "prepare", "prepare.settled",
   "setInterval", "powerSaveBlocker.start", "launcher", "tick",
   "launcher.settled", "catch", "clearInterval", "powerSaveBlocker.stop",
   "touch", "handler", "diego.hire", "openModal", "logger.close"}

Init ==
  /\ pc = "start"
  /\ now = 0
  /\ preferences \in [preventDisplaySleep : BOOLEAN]
  /\ market \in Caves
  /\ cave = market
  /\ launchType = None
  /\ manifest = <<>>
  /\ manifestAction = NoAction
  /\ picked = 0
  /\ env = {}
  /\ args = 0
  /\ startedAt = Undefined
  /\ interval = NoTimer
  /\ powerSaveBlockerId = Undefined
  /\ blockers = {}
  /\ endsAt = Undefined
  /\ e = NoError
  /\ reason = None
  /\ completion = None
  /\ doStartResult = "pending"
  /\ startResult = "pending"
  /\ dispatchSecondsRun = Undefined
  /\ events = <<>>
  /\ calls = [n \in EventNames |-> 0]
  /\ actionPath = <<>>
  /\ platform = None
  /\ sniffRes = NoSniff

Count(ev) == calls[ev]

RECURSIVE Counted(_, _)
Counted(c, evs) ==
  IF evs = <<>> THEN c
  ELSE Counted([c EXCEPT ![Head(evs)] = @ + 1], Tail(evs))

\* the calls evs are made, in this order
Log(evs) ==
  /\ events' = events \o evs
  /\ calls' = Counted(calls, evs)

\* doStart throws err before its try statement: start's catch takes over
Throw(err, why) ==
  /\ e' = err
  /\ reason' = why
  /\ doStartResult' = "threw"
  /\ pc' = "startCatch"

\* doStart returns before its try statement
Return ==
  /\ doStartResult' = "returned"
  /\ pc' = "startFinally"
  /\ UNCHANGED <<e, reason>>

(***************************************************************************)
(* start and doStart up to the dispatch (launch.ts:89-293).                *)
(***************************************************************************)
\* launch.ts:89-99, 144-154: start opens the logger and calls doStart, which
\* suspends at `await fetch.gameLazily(...)`
Start ==
  /\ pc = "start"
  /\ pc' = "gameLazily"
  /\ Log(<<"doStart">>)
  /\ UNCHANGED <<now, preferences, market, cave, launchType,
                 manifestVars, lifecycleVars, e, reason, doStartResult,
                 startResult>>
  /\ UNCHANGED classifierVars

\* Mutation of OpenFolder: the `return` of line 161 is missing
OpenFolderFallsThrough ==
  /\ market' = saveEntity(market, [lastTouched |-> now])
  /\ Log(<<"explorer.open">>)
  /\ pc' = "check"
  /\ UNCHANGED <<e, reason, doStartResult>>

\* launch.ts:158-162: the folder is opened and doStart returns
OpenFolder ==
  /\ market' = saveEntity(market, [lastTouched |-> now])
  /\ Log(<<"explorer.open">>)
  /\ Return

\* launch.ts:154-162: the game is fetched (or the fetch fails), then
\* actionForGame decides between opening the folder and launching
GameLazily ==
  /\ pc = "gameLazily"
  /\ \/ /\ Throw("Error", None)
        /\ UNCHANGED <<market, history>>
     \/ \E action \in {"open", "launch"} :
          IF action = "open"
          THEN OpenFolder
          ELSE /\ pc' = "check"
               /\ UNCHANGED <<market, history, e, reason, doStartResult>>
  /\ UNCHANGED <<now, preferences, cave, launchType, manifestVars,
                 lifecycleVars, startResult>>
  /\ UNCHANGED classifierVars

\* launch.ts:164-175: launchType is taken from the record, the first readiness
\* check runs and, on a problem, the configure task is started
FirstCheck ==
  /\ pc = "check"
  /\ launchType' = IF cave.launchType = None THEN "native" ELSE cave.launchType
  /\ IF caveProblem(cave) # NoProblem
     THEN /\ Log(<<"caveProblem", "problem", "configure">>)
          /\ pc' = "configure"
     ELSE /\ Log(<<"caveProblem">>)
          /\ pc' = "recheck"
  /\ UNCHANGED <<now, preferences, market, cave, manifestVars,
                 lifecycleVars, e, reason, doStartResult, startResult>>
  /\ UNCHANGED classifierVars

\* launch.ts:169-176: the configure task settles; it may have rewritten the
\* stored record, which is then reloaded
Configure ==
  /\ pc = "configure"
  /\ \/ /\ Throw("Error", None)
        /\ UNCHANGED <<market, cave>>
     \/ \E lt \in CaveLaunchTypes, ex \in ExecutableCounts, gp \in BOOLEAN :
          /\ market' = saveEntity(market,
                         [launchType |-> lt, executables |-> ex, gamePath |-> gp])
          /\ cave' = market'
          /\ pc' = "recheck"
          /\ UNCHANGED <<e, reason, doStartResult>>
  /\ Log(<<"configure.settled">>)
  /\ UNCHANGED <<now, preferences, launchType, manifestVars,
                 lifecycleVars, startResult>>
  /\ UNCHANGED classifierVars

\* Mutation of PersistingProblem: the repair is tried again
PersistingProblemRetries ==
  /\ pc' = "configure"
  /\ Log(<<"caveProblem", "problem", "configure">>)
  /\ UNCHANGED <<e, reason, doStartResult>>

\* Mutation of PersistingProblem: the problem is logged and the launch goes on
PersistingProblemIgnored ==
  /\ pc' = "exists"
  /\ Log(<<"caveProblem", "problem", "sf.exists">>)
  /\ UNCHANGED <<e, reason, doStartResult>>

\* launch.ts:180-185: the problem is still there: an error carrying it as its
\* reason is thrown
PersistingProblem ==
  /\ Throw("Error", caveProblem(cave))
  /\ Log(<<"caveProblem", "problem">>)

\* launch.ts:179-194: the second readiness check; a problem is fatal, else
\* doStart looks for the manifest
Recheck ==
  /\ pc = "recheck"
  /\ IF caveProblem(cave) # NoProblem
     THEN PersistingProblem
     ELSE /\ pc' = "exists"
          /\ Log(<<"caveProblem", "sf.exists">>)
          /\ UNCHANGED <<e, reason, doStartResult>>
  /\ UNCHANGED <<now, preferences, market, cave, launchType,
                 manifestVars, lifecycleVars, startResult>>
  /\ UNCHANGED classifierVars

\* launch.ts:194-200, 245-251: without a manifest there is no manifest action
Exists ==
  /\ pc = "exists"
  /\ \E hasManifest \in BOOLEAN :
       IF hasManifest
       THEN /\ pc' = "readFile"
            /\ Log(<<"sf.readFile">>)
       ELSE /\ pc' = "resolve"
            /\ UNCHANGED history
  /\ UNCHANGED <<now, preferences, market, cave, launchType,
                 manifestVars, lifecycleVars, e, reason, doStartResult,
                 startResult>>
  /\ UNCHANGED classifierVars

\* Mutation of NeedsPrompt: a single action is prompted for as well
NeedsPromptForOne(m) == Len(m) >= 1

\* launch.ts:212  manifest.actions.length > 1
NeedsPrompt(m) == Len(m) > 1

\* launch.ts:201-244: the manifest is parsed and validated; one action is
\* taken as it is, several open the prompt
ReadManifest ==
  /\ pc = "readFile"
  /\ \/ /\ Throw("Error", None)
        /\ UNCHANGED <<manifest, manifestAction, history>>
     \/ \E m \in Manifests :
          /\ manifest' = m
          /\ IF ~validateManifest(m)
             THEN /\ Throw("Error", None)
                  /\ Log(<<"validateManifest">>)
                  /\ UNCHANGED manifestAction
             ELSE IF NeedsPrompt(m)
             THEN IF FirstNameless(m) # 0
                  THEN /\ Throw("Error", None)
                       /\ Log(<<"validateManifest">>)
                       /\ UNCHANGED manifestAction
                  ELSE /\ pc' = "modal"
                       /\ Log(<<"validateManifest", "promisedModal">>)
                       /\ UNCHANGED <<manifestAction, e, reason, doStartResult>>
             ELSE /\ manifestAction' = IF Len(m) = 1 THEN m[1] ELSE NoAction
                  /\ pc' = "resolve"
                  /\ Log(<<"validateManifest">>)
                  /\ UNCHANGED <<e, reason, doStartResult>>
  /\ UNCHANGED <<now, preferences, market, cave, launchType, picked,
                 env, args, lifecycleVars, startResult>>
  /\ UNCHANGED classifierVars

\* launch.ts:229-241: the user presses the i-th action button, whose response
\* carries that action's name, or cancels
Modal ==
  /\ pc = "modal"
  /\ \/ /\ Return
        /\ Log(<<"promisedModal.settled", "cancel">>)
        /\ UNCHANGED <<manifestAction, picked>>
     \/ \E i \in 1..Len(manifest) :
          /\ picked' = i
          /\ manifestAction' = findWhere(manifest, manifest[i].name)
          /\ pc' = "resolve"
          /\ Log(<<"promisedModal.settled">>)
          /\ UNCHANGED <<e, reason, doStartResult>>
  /\ UNCHANGED <<now, preferences, market, cave, launchType,
                 manifest, env, args, lifecycleVars, startResult>>
  /\ UNCHANGED classifierVars

\* Mutation of HasScope: `manifestAction.scope !== undefined`
HasScopeDefined(a) == a.scope # None

\* launch.ts:253  if (manifestAction.scope): neither missing nor empty
HasScope(a) == a.scope # None /\ a.scope # ""

\* launch.ts:249-260, 353-356: on the platform os.itchPlatform() reports (both
\* reads are in this one synchronous segment) the placeholder is replaced, the launch type is derived
\* from the action's path and a scoped key is requested if the action has a scope
Resolve ==
  /\ pc = "resolve"
  /\ IF manifestAction = NoAction
     THEN /\ pc' = "dispatch"
          /\ UNCHANGED <<manifestAction, launchType, history>>
     ELSE \E itchPlatform \in Platforms, sniffed \in SniffResults :
          LET path == ReplaceFirst(manifestAction.path, ExtPlaceholder,
                                   appExt(itchPlatform))
          IN /\ manifestAction' = [manifestAction EXCEPT !.path = path]
             /\ launchType' = launchTypeForAction(path, itchPlatform, sniffed)
             /\ pc' = IF HasScope(manifestAction) THEN "subkey" ELSE "dispatch"
             /\ Log(<<"launchTypeForAction">>
                    \o (IF NeedsSniff(path) THEN <<"fnout.path">> ELSE <<>>)
                    \o (IF HasScope(manifestAction) THEN <<"subkey">> ELSE <<>>))
  /\ UNCHANGED <<now, preferences, market, cave, manifest, picked,
                 env, args, lifecycleVars, e, reason, doStartResult,
                 startResult>>
  /\ UNCHANGED classifierVars

\* launch.ts:256-259: the subkey request settles
Subkey ==
  /\ pc = "subkey"
  /\ \/ /\ Throw("Error", None)
        /\ UNCHANGED env
     \/ /\ env' = {"ITCHIO_API_KEY", "ITCHIO_API_KEY_EXPIRES_AT"}
        /\ pc' = "dispatch"
        /\ UNCHANGED <<e, reason, doStartResult>>
  /\ Log(<<"subkey.settled">>)
  /\ UNCHANGED <<now, preferences, market, cave, launchType,
                 manifest, manifestAction, picked, args, lifecycleVars,
                 startResult>>
  /\ UNCHANGED classifierVars

\* Mutation of CallPrepare: the call is not awaited
CallPrepareNotAwaited ==
  /\ pc' = "begin"
  /\ Log(<<"prepare">>)

\* launch.ts:288-290: the preparer is called and awaited
CallPrepare ==
  /\ pc' = "prepare"
  /\ Log(<<"prepare">>)

\* Mutation of HasPreparer: no launch type has a preparer
HasPreparerNever(lt) == FALSE

\* launch.ts:284-288: the preparers registered, by launch type
HasPreparer(lt) == lt = "native"

\* launch.ts:262-293: the arguments are copied, the launcher and the preparer
\* are looked up by launch type; only "native" has a preparer
Dispatch ==
  /\ pc = "dispatch"
  /\ args' = IF manifestAction = NoAction THEN 0 ELSE manifestAction.args
  /\ IF launchType \notin LaunchTypes
     THEN /\ Throw("Error", None)
          /\ UNCHANGED history
     ELSE IF HasPreparer(launchType)
     THEN /\ CallPrepare
          /\ UNCHANGED <<e, reason, doStartResult>>
     ELSE /\ pc' = "begin"
          /\ UNCHANGED <<history, e, reason, doStartResult>>
  /\ UNCHANGED <<now, preferences, market, cave, launchType,
                 manifest, manifestAction, picked, env, lifecycleVars,
                 startResult>>
  /\ UNCHANGED classifierVars

(***************************************************************************)
(* The run lifecycle (launch.ts:290-338).                                  *)
(***************************************************************************)
\* launch.ts:290: the prepare step settles, after some time
Prepare ==
  /\ pc = "prepare"
  /\ \E d \in PrepareDurations :
       /\ now' = now + d
       /\ \/ \E err \in Thrown : Throw(err, None)
          \/ /\ pc' = "begin"
             /\ UNCHANGED <<e, reason, doStartResult>>
  /\ Log(<<"prepare.settled">>)
  /\ UNCHANGED <<preferences, market, cave, launchType, manifestVars,
                 lifecycleVars, startResult>>
  /\ UNCHANGED classifierVars

\* launch.ts:295-311: the start time is taken and stored, the playtime timer
\* is set, the idle-sleep lock is taken if the preference asks for it, and the
\* launcher is called, to settle after one of Durations.  `manifest` was last
\* read at line 290 and the button pressed at line 238: neither can be read
\* again, and the model stops carrying them here
Begin ==
  /\ pc = "begin"
  /\ startedAt' = now
  /\ market' = saveEntity(market, [lastTouched |-> now])
  /\ dispatchSecondsRun' = SecondsRunOrZero(market)
  /\ interval' = [active |-> TRUE, next |-> now + IntervalMs]
  /\ IF preferences.preventDisplaySleep
     THEN \E id \in BlockerIds :
            /\ powerSaveBlockerId' = id
            /\ blockers' = blockers \cup {id}
            /\ Log(<<"setInterval", "powerSaveBlocker.start", "launcher">>)
     ELSE /\ powerSaveBlockerId' = Undefined
          /\ UNCHANGED blockers
          /\ Log(<<"setInterval", "launcher">>)
  /\ \E d \in Durations : endsAt' = now + d
  /\ pc' = "launcher"
  /\ manifest' = <<>>
  /\ picked' = 0
  /\ UNCHANGED <<now, preferences, cave, launchType, manifestAction, env, args,
                 completion, e, reason, doStartResult, startResult>>
  /\ UNCHANGED classifierVars

\* time passes while doStart awaits the launcher, up to the next thing due
Wait ==
  /\ pc = "launcher"
  /\ LET due == IF interval.active /\ interval.next < endsAt
                THEN interval.next ELSE endsAt
     IN /\ now < due
        /\ now' = due
  /\ UNCHANGED <<pc, preferences, market, cave, launchType,
                 manifestVars, lifecycleVars, e, reason, doStartResult,
                 startResult, history>>
  /\ UNCHANGED classifierVars

\* Mutation of previousSecondsRun: doStart's own copy of the record is read
previousSecondsRunOfCopy == SecondsRunOrZero(cave)

\* launch.ts:304: the seconds run so far, read from the store
previousSecondsRun == SecondsRunOrZero(market)

\* the points at which start/doStart is suspended, or over, once the timer is
\* set: only there can a timer callback run
TimerCanFire == pc \in {"launcher", "startCatch", "done"}

\* launch.ts:302-307: the timer callback; it reads the stored record and
\* writes secondsRun and lastTouched back.  It runs when the timer is due and
\* has not been cleared
Tick ==
  /\ TimerCanFire
  /\ interval.active
  /\ now = interval.next
  /\ LET newSecondsRun == UPDATE_PLAYTIME_INTERVAL + previousSecondsRun
     IN market' = saveEntity(market,
                    [secondsRun |-> newSecondsRun, lastTouched |-> now])
  /\ interval' = [interval EXCEPT !.next = now + IntervalMs]
  /\ Log(<<"tick">>)
  /\ UNCHANGED <<pc, now, preferences, cave, launchType,
                 manifestVars, startedAt, powerSaveBlockerId, blockers, endsAt,
                 completion, dispatchSecondsRun, e, reason, doStartResult,
                 startResult>>
  /\ UNCHANGED classifierVars

\* Mutation of RanLongEnough: >= instead of >
RanLongEnoughInclusive(t) == (t - startedAt) >= GraceSeconds * MsPerSecond

\* launch.ts:316-317: (Date.now() - startedAt) / 1000 > 2, on whole
\* milliseconds
RanLongEnough(t) == (t - startedAt) > GraceSeconds * MsPerSecond

\* Mutation of Classify: every crash is swallowed
ClassifySwallowsCrash(err, t) ==
  IF err = "Crash" THEN "return"
  ELSE IF err = "Cancelled" THEN "return"
  ELSE "throw"

\* Mutation of Classify: a cancellation is swallowed only after the grace period
ClassifyCancelAfterGrace(err, t) ==
  IF err \in {"Crash", "Cancelled"} /\ RanLongEnough(t) THEN "return"
  ELSE "throw"

\* launch.ts:313-329: how the try statement completes when the launcher
\* throws err at time t: a crash after the grace period and a cancellation are
\* swallowed, anything else is thrown again
Classify(err, t) ==
  IF err = "Crash" /\ RanLongEnough(t) THEN "return"
  ELSE IF err = "Cancelled" THEN "return"
  ELSE "throw"

\* launch.ts:311-329: the launcher settles: it returns, or it throws and the
\* catch clause classifies what it threw
Launcher ==
  /\ pc = "launcher"
  /\ now = endsAt
  /\ \/ /\ completion' = "normal"
        /\ Log(<<"launcher.settled">>)
        /\ UNCHANGED <<e, reason>>
     \/ \E err \in Thrown :
          /\ e' = err
          /\ reason' = None
          /\ completion' = Classify(err, now)
          /\ Log(<<"launcher.settled", "catch">>)
  /\ pc' = "finally"
  /\ UNCHANGED <<now, preferences, market, cave, launchType,
                 manifestVars, startedAt, interval, powerSaveBlockerId,
                 blockers, endsAt, dispatchSecondsRun, doStartResult,
                 startResult>>
  /\ UNCHANGED classifierVars

\* Mutation of HoldsBlocker: `if (powerSaveBlockerId)`
HoldsBlockerTruthy(id) == id # Undefined /\ id # 0

\* launch.ts:332: powerSaveBlockerId !== null
HoldsBlocker(id) == id # Undefined

\* Mutation of Finally: the cleanup follows the try statement instead of being
\* its finally clause, so a thrown error skips it
FinallySkippedOnThrow ==
  /\ pc = "finally"
  /\ IF completion = "throw"
     THEN /\ doStartResult' = "threw"
          /\ pc' = "startCatch"
          /\ UNCHANGED <<interval, blockers, history, market>>
     ELSE /\ interval' = [interval EXCEPT !.active = FALSE]
          /\ IF HoldsBlocker(powerSaveBlockerId)
             THEN /\ blockers' = blockers \ {powerSaveBlockerId}
                  /\ Log(<<"clearInterval", "powerSaveBlocker.stop", "touch">>)
             ELSE /\ UNCHANGED blockers
                  /\ Log(<<"clearInterval", "touch">>)
          /\ market' = saveEntity(market, [lastTouched |-> now])
          /\ doStartResult' = "returned"
          /\ pc' = "startFinally"
  /\ UNCHANGED <<now, preferences, cave, launchType, manifestVars,
                 startedAt, powerSaveBlockerId, endsAt, completion,
                 dispatchSecondsRun, e, reason, startResult>>
  /\ UNCHANGED classifierVars

\* launch.ts:330-337: the timer is cleared, the lock released if one was
\* taken, lastTouched written; then doStart completes as the try statement did
Finally ==
  /\ pc = "finally"
  /\ interval' = [interval EXCEPT !.active = FALSE]
  /\ IF HoldsBlocker(powerSaveBlockerId)
     THEN /\ blockers' = blockers \ {powerSaveBlockerId}
          /\ Log(<<"clearInterval", "powerSaveBlocker.stop", "touch">>)
     ELSE /\ UNCHANGED blockers
          /\ Log(<<"clearInterval", "touch">>)
  /\ market' = saveEntity(market, [lastTouched |-> now])
  /\ IF completion = "throw"
     THEN /\ doStartResult' = "threw"
          /\ pc' = "startCatch"
     ELSE /\ doStartResult' = "returned"
          /\ pc' = "startFinally"
  /\ UNCHANGED <<now, preferences, cave, launchType, manifestVars,
                 startedAt, powerSaveBlockerId, endsAt, completion,
                 dispatchSecondsRun, e, reason, startResult>>
  /\ UNCHANGED classifierVars

(***************************************************************************)
(* start's handler (launch.ts:100-141).                                    *)
(***************************************************************************)
\* launch.ts:100-141: the handler fetches the game and hires diego; if either
\* throws, so does start, else the failure modal is opened; the logger is
\* closed in every case
StartCatch ==
  /\ pc = "startCatch"
  /\ \/ /\ startResult' = "threw"
        /\ Log(<<"handler", "logger.close">>)
     \/ /\ startResult' = "threw"
        /\ Log(<<"handler", "diego.hire", "logger.close">>)
     \/ /\ startResult' = "returned"
        /\ Log(<<"handler", "diego.hire", "openModal", "logger.close">>)
  /\ pc' = "done"
  /\ UNCHANGED <<now, preferences, market, cave, launchType,
                 manifestVars, lifecycleVars, e, reason, doStartResult>>
  /\ UNCHANGED classifierVars

\* launch.ts:99, 139-141: doStart returned; the logger is closed and start
\* returns
StartFinally ==
  /\ pc = "startFinally"
  /\ pc' = "done"
  /\ startResult' = "returned"
  /\ Log(<<"logger.close">>)
  /\ UNCHANGED <<now, preferences, market, cave, launchType,
                 manifestVars, lifecycleVars, e, reason, doStartResult>>
  /\ UNCHANGED classifierVars

Next ==
  \/ Start
  \/ GameLazily
  \/ FirstCheck
  \/ Configure
  \/ Recheck
  \/ Exists
  \/ ReadManifest
  \/ Modal
  \/ Resolve
  \/ Subkey
  \/ Dispatch
  \/ Prepare
  \/ Begin
  \/ Wait
  \/ Tick
  \/ Launcher
  \/ Finally
  \/ StartCatch
  \/ StartFinally

Spec == Init /\ [][Next]_vars

(***************************************************************************)
(* launchTypeForAction on its own (launch.ts:340-363): called with any of  *)
(* the action paths below, on any platform, whatever fnout.path reports.   *)
(***************************************************************************)
ClassifierPrefixes ==
  { <<>>,
    <<"h", "t", "t", "p", ":">>,
    <<"h", "t", "t", "p", ":", "/", "/">>,
    <<"h", "t", "t", "p", "s", ":", "/", "/">>,
    <<"H", "T", "T", "P", "S", ":", "/", "/">>,
    <<"f", "t", "p", ":", "/", "/">> }

ClassifierSuffixes ==
  { <<>>,
    <<".", "a", "p", "p">>, <<".", "e", "x", "e">>, <<".", "E", "X", "E">>,
    <<".", "b", "a", "t">>, <<".", "s", "h">>,
    <<".", "h", "t", "m">>, <<".", "h", "t", "m", "l">>,
    <<".", "H", "t", "m", "l">>,
    <<".", "h", "t", "m", "l", ".", "s", "h">>,
    <<".", "e", "x", "e", ".", "h", "t", "m">>,
    <<".", "t", "x", "t">>, <<"s", "h">>, <<".", "h", "t", "m", "l", "x">> }

ClassifierPaths ==
  {prefix \o <<"a">> \o suffix :
     prefix \in ClassifierPrefixes, suffix \in ClassifierSuffixes}

ClassifierInit ==
  /\ pc = "launchTypeForAction"
  /\ actionPath \in ClassifierPaths
  /\ platform \in Platforms
  /\ sniffRes \in SniffResults
  /\ launchType = None
  /\ now = 0
  /\ preferences = [preventDisplaySleep |-> FALSE]
  /\ market = [launchType |-> None, executables |-> 0, gamePath |-> FALSE,
               secondsRun |-> Undefined, lastTouched |-> Undefined]
  /\ cave = market
  /\ manifest = <<>>
  /\ manifestAction = NoAction
  /\ picked = 0
  /\ env = {}
  /\ args = 0
  /\ startedAt = Undefined
  /\ interval = NoTimer
  /\ powerSaveBlockerId = Undefined
  /\ blockers = {}
  /\ endsAt = Undefined
  /\ e = NoError
  /\ reason = None
  /\ completion = None
  /\ doStartResult = "pending"
  /\ startResult = "pending"
  /\ dispatchSecondsRun = Undefined
  /\ events = <<>>
  /\ calls = [n \in EventNames |-> 0]

\* launch.ts:340-363: one call of launchTypeForAction, from its entry to its
\* return; fnout.path is called when none of the three patterns matches
LaunchTypeForAction ==
  /\ pc = "launchTypeForAction"
  /\ launchType' = launchTypeForAction(actionPath, platform, sniffRes)
  /\ Log(<<"launchTypeForAction">>
         \o (IF NeedsSniff(actionPath) THEN <<"fnout.path">> ELSE <<>>))
  /\ pc' = "classified"
  /\ UNCHANGED <<now, preferences, market, cave, manifestVars, lifecycleVars,
                 e, reason, doStartResult, startResult, classifierVars>>

ClassifierNext == LaunchTypeForAction

ClassifierSpec == ClassifierInit /\ [][ClassifierNext]_vars

(***************************************************************************)
(* Vocabulary of the properties.                                           *)
(***************************************************************************)
Has(ev) == calls[ev] > 0

DoStartSettled == doStartResult # "pending"

\* the launcher was called and has settled
LauncherSettled == Count("launcher") = 1 /\ Count("launcher.settled") = 1

\* the time from startedAt to the moment the launcher settled
Elapsed == endsAt - startedAt

(***************************************************************************)
(* C1: once doStart has started the playtime timer, the cleanup (timer     *)
(* cleared, idle-sleep lock released if one was taken, lastTouched         *)
(* written) runs exactly once, after the launcher has settled and before   *)
(* doStart settles, whether the launcher returned or threw Cancelled,      *)
(* Crash or another error; it never runs before the launcher settles.      *)
(***************************************************************************)
C1_CleanupExactlyOnce ==
  /\ Count("clearInterval") <= 1
  /\ Count("touch") <= 1
  /\ Count("powerSaveBlocker.stop") <= 1
  /\ Has("clearInterval") => Has("launcher.settled")
  /\ Has("touch") => Has("launcher.settled")
  /\ Has("powerSaveBlocker.stop") => Has("launcher.settled")
  /\ Count("touch") = Count("clearInterval")
  /\ (Has("setInterval") /\ DoStartSettled) =>
       /\ Count("clearInterval") = 1
       /\ ~interval.active
       /\ Count("touch") = 1
       /\ market.lastTouched = endsAt
       /\ Count("powerSaveBlocker.stop") = Count("powerSaveBlocker.start")

\* an early crash was thrown again, and the cleanup has run
C1_Witness ==
  /\ pc = "done"
  /\ LauncherSettled
  /\ e = "Crash"
  /\ doStartResult = "threw"
  /\ Count("clearInterval") = 1
  /\ Count("powerSaveBlocker.stop") = 1

(***************************************************************************)
(* C2 as stated: in every launch call the idle-sleep lock is taken if and  *)
(* only if preferences.preventDisplaySleep is set, and it is released      *)
(* exactly once if taken, never if not.                                    *)
(***************************************************************************)
C2_Original ==
  DoStartSettled =>
    /\ (Count("powerSaveBlocker.start") = 1) <=> preferences.preventDisplaySleep
    /\ Count("powerSaveBlocker.stop") = Count("powerSaveBlocker.start")
    /\ blockers = {}

(***************************************************************************)
(* C2 as amended: the lock is taken at most once and only when             *)
(* preferences.preventDisplaySleep is set; in every launch call that       *)
(* reaches the launcher it is taken if and only if the preference is set;  *)
(* a lock taken is held until the launcher settles and released exactly    *)
(* once by the time doStart settles, however the launcher settles; without *)
(* a lock (id null) stop is never called; no lock is released twice or     *)
(* left held after doStart has settled.                                    *)
(***************************************************************************)
C2_LockPaired ==
  /\ Count("powerSaveBlocker.start") <= 1
  /\ Count("powerSaveBlocker.stop") <= Count("powerSaveBlocker.start")
  /\ Has("powerSaveBlocker.start") => preferences.preventDisplaySleep
  /\ Has("launcher") =>
       (Has("powerSaveBlocker.start") <=> preferences.preventDisplaySleep)
  /\ Has("launcher") =>
       (Has("powerSaveBlocker.start") <=> powerSaveBlockerId # Undefined)
  /\ Has("powerSaveBlocker.stop") => Has("launcher.settled")
  /\ (Has("powerSaveBlocker.start") /\ ~Has("powerSaveBlocker.stop")) =>
       blockers = {powerSaveBlockerId}
  /\ Has("powerSaveBlocker.stop") => blockers = {}
  /\ DoStartSettled =>
       /\ Count("powerSaveBlocker.stop") = Count("powerSaveBlocker.start")
       /\ blockers = {}

\* the lock with id 0 was taken and released although the launcher threw
C2_Witness ==
  /\ pc = "done"
  /\ preferences.preventDisplaySleep
  /\ powerSaveBlockerId = 0
  /\ LauncherSettled
  /\ e = "Error"
  /\ Count("powerSaveBlocker.stop") = 1
  /\ blockers = {}

(***************************************************************************)
(* C3: in one launch call the configure task is started at most once, and  *)
(* only right after the first readiness check reported a problem; a        *)
(* problem that persists after the reload does not start it again.         *)
(***************************************************************************)
C3_RepairAtMostOnce ==
  /\ Count("configure") <= 1
  /\ Count("caveProblem") <= 2
  /\ \A i \in 1..Len(events) :
       events[i] = "configure" =>
         /\ i >= 3
         /\ events[i - 1] = "problem"
         /\ events[i - 2] = "caveProblem"
         /\ \A j \in 1..(i - 3) : events[j] # "caveProblem"
  /\ (Count("problem") = 2) => (DoStartSettled /\ Count("configure") = 1)

\* the problem persisted after the one repair
C3_Witness ==
  /\ pc = "done"
  /\ Count("configure") = 1
  /\ Count("configure.settled") = 1
  /\ Count("problem") = 2

(***************************************************************************)
(* C4: if caveProblem still reports a problem on the record reloaded after *)
(* the repair, doStart throws an error whose reason is that problem, and   *)
(* that call never looks for or reads the manifest, requests no subkey,    *)
(* calls no preparer and no launcher, sets no timer and takes no lock.     *)
(***************************************************************************)
C4_PersistingProblemIsFatal ==
  (Count("caveProblem") = 2 /\ cave = market /\ caveProblem(cave) # NoProblem) =>
    /\ doStartResult = "threw"
    /\ e = "Error"
    /\ reason = caveProblem(cave)
    /\ reason \in {"game.install.no_executables_found",
                   "game.install.no_html_index_found"}
    /\ ~Has("sf.exists")
    /\ ~Has("sf.readFile")
    /\ ~Has("subkey")
    /\ ~Has("prepare")
    /\ ~Has("launcher")
    /\ ~Has("setInterval")
    /\ ~Has("powerSaveBlocker.start")
    /\ startedAt = Undefined
    /\ blockers = {}

\* the repair turned a native cave without executables into an html cave
\* without a game path, and the launch failed with that problem
C4_Witness ==
  /\ pc = "done"
  /\ Count("configure.settled") = 1
  /\ Count("caveProblem") = 2
  /\ launchType = "native"
  /\ cave.launchType = "html"
  /\ reason = "game.install.no_html_index_found"

(***************************************************************************)
(* C5 as stated implies: every launch call that has settled has called the *)
(* launcher exactly once or has thrown a fatal error, the user-cancel path *)
(* and the 'open' path included.                                           *)
(***************************************************************************)
C5_Original ==
  /\ Count("launcher") <= 1
  /\ DoStartSettled => (Count("launcher") = 1 \/ doStartResult = "threw")

(***************************************************************************)
(* C5 as amended: a launch call calls the launcher at most once and throws *)
(* at most one fatal error, which reaches start's handler once.  It        *)
(* settles with neither exactly when actionForGame said 'open' or the user *)
(* cancelled the action prompt: doStart then returns normally, and no      *)
(* preparer, launcher, subkey request, timer or lock was involved.  A call *)
(* that throws without having called the launcher failed before the        *)
(* dispatch; one that throws after calling it was thrown to by the         *)
(* launcher.                                                               *)
(***************************************************************************)
C5_OutcomeOfLaunch ==
  /\ Count("launcher") <= 1
  /\ Count("handler") <= 1
  /\ Has("handler") => doStartResult = "threw"
  /\ doStartResult = "threw" <=> (e # NoError /\ pc \in {"startCatch", "done"} /\ ~Has("launcher"))
                               \/ (e \in Thrown /\ pc \in {"startCatch", "done"}
                                     /\ LauncherSettled /\ completion = "throw")
  /\ DoStartSettled =>
       ((~Has("launcher") /\ doStartResult = "returned")
          <=> (Has("explorer.open") \/ Has("cancel")))
  /\ (Has("explorer.open") \/ Has("cancel")) =>
       /\ DoStartSettled
       /\ ~Has("prepare")
       /\ ~Has("subkey")
       /\ ~Has("setInterval")
       /\ ~Has("powerSaveBlocker.start")
  /\ pc = "done" => (Has("handler") <=> doStartResult = "threw")

\* the user cancelled the prompt: neither a launcher nor an error
C5_Witness ==
  /\ pc = "done"
  /\ Has("cancel")
  /\ doStartResult = "returned"
  /\ startResult = "returned"
  /\ ~Has("launcher")
  /\ ~Has("handler")

(***************************************************************************)
(* C6: when the launcher throws a Crash, what doStart does depends on the  *)
(* time elapsed since startedAt alone: more than 2000 ms and doStart       *)
(* returns normally (start's handler does not run), 2000 ms or less -      *)
(* exactly 2000 included - and the Crash is thrown to start's handler.     *)
(***************************************************************************)
C6_CrashGracePeriod ==
  (LauncherSettled /\ e = "Crash") =>
    /\ completion = (IF Elapsed > 2000 THEN "return" ELSE "throw")
    /\ DoStartSettled =>
         doStartResult = (IF Elapsed > 2000 THEN "returned" ELSE "threw")
    /\ pc = "done" =>
         /\ Has("handler") <=> Elapsed <= 2000
         /\ Elapsed > 2000 => startResult = "returned"

\* a crash after exactly two seconds reached start's handler
C6_Witness ==
  /\ pc = "done"
  /\ LauncherSettled
  /\ e = "Crash"
  /\ Elapsed = 2000
  /\ doStartResult = "threw"
  /\ Has("handler")

(***************************************************************************)
(* C7 as stated: a Crash thrown by the launcher 0.5 s after startedAt is   *)
(* swallowed: doStart returns normally and no failure modal is opened.     *)
(***************************************************************************)
C7_Original ==
  (LauncherSettled /\ e = "Crash" /\ Elapsed = 500 /\ DoStartSettled) =>
    /\ doStartResult = "returned"
    /\ ~Has("openModal")

(***************************************************************************)
(* C7 as amended: a Crash thrown by the launcher 0.5 s after startedAt is  *)
(* inside the 2 s grace period and is not swallowed: after the cleanup     *)
(* doStart throws it to start's handler, which opens the failure modal     *)
(* unless its own game fetch or diego.hire throws.                         *)
(***************************************************************************)
C7_EarlyCrashIsFatal ==
  (LauncherSettled /\ e = "Crash" /\ Elapsed = 500 /\ DoStartSettled) =>
    /\ doStartResult = "threw"
    /\ Count("clearInterval") = 1
    /\ pc = "done" =>
         /\ Has("handler")
         /\ startResult = "returned" <=> Has("openModal")

\* the crash after half a second ended in the failure modal
C7_Witness ==
  /\ pc = "done"
  /\ LauncherSettled
  /\ e = "Crash"
  /\ Elapsed = 500
  /\ doStartResult = "threw"
  /\ Count("openModal") = 1

(***************************************************************************)
(* C8: when the launcher throws Cancelled, however long after startedAt,   *)
(* doStart returns normally, start's handler does not run and opens no     *)
(* failure modal, and the cleanup has run once.                            *)
(***************************************************************************)
C8_CancelledIsBenign ==
  (LauncherSettled /\ e = "Cancelled") =>
    /\ completion = "return"
    /\ ~Has("handler")
    /\ ~Has("openModal")
    /\ DoStartSettled =>
         /\ doStartResult = "returned"
         /\ Count("clearInterval") = 1
         /\ Count("touch") = 1
         /\ ~interval.active
         /\ blockers = {}
    /\ pc = "done" => startResult = "returned"

\* a cancellation inside the grace period, with the lock held, ended normally
C8_Witness ==
  /\ pc = "done"
  /\ LauncherSettled
  /\ e = "Cancelled"
  /\ Elapsed = 500
  /\ Has("powerSaveBlocker.stop")
  /\ startResult = "returned"

(***************************************************************************)
(* The stages of a launch call: 1 readiness check and repair, 2 manifest   *)
(* look-up and action selection, 3 scoped-credential request, 4 prepare,   *)
(* 5 launcher; 0 for a call that belongs to none of them.                  *)
(***************************************************************************)
StageTable ==
  [ev \in EventNames |->
     IF ev \in {"caveProblem", "problem", "configure", "configure.settled"} THEN 1
     ELSE IF ev \in {"sf.exists", "sf.readFile", "validateManifest", "promisedModal",
                     "promisedModal.settled", "cancel", "launchTypeForAction",
                     "fnout.path"} THEN 2
     ELSE IF ev \in {"subkey", "subkey.settled"} THEN 3
     ELSE IF ev \in {"prepare", "prepare.settled"} THEN 4
     ELSE IF ev \in {"launcher", "launcher.settled"} THEN 5
     ELSE 0]

StageOf(ev) == StageTable[ev]

IsStaged(ev) == StageTable[ev] # 0

\* a stage whose awaited call has not settled yet
StageOpen(stage) ==
  CASE stage = 1 -> Count("configure") # Count("configure.settled")
    [] stage = 2 -> Count("promisedModal") # Count("promisedModal.settled")
    [] stage = 3 -> Count("subkey") # Count("subkey.settled")
    [] stage = 4 -> Count("prepare") # Count("prepare.settled")
    [] OTHER -> FALSE

(***************************************************************************)
(* C9: the stages of a launch call occur in the order readiness check and  *)
(* repair, manifest look-up and action selection, scoped-credential        *)
(* request, prepare, launcher, each as far as it occurs at all: no call of *)
(* an earlier stage follows a call of a later one, and while a stage has   *)
(* begun no earlier stage has an awaited call that has not settled.        *)
(***************************************************************************)
C9_StagesInOrder ==
  /\ LET staged == SelectSeq(events, IsStaged)
     IN \A i \in 1..(Len(staged) - 1) :
          StageTable[staged[i]] <= StageTable[staged[i + 1]]
  /\ Has("sf.exists") => (Has("caveProblem") /\ ~StageOpen(1))
  /\ Has("subkey") => (Has("sf.exists") /\ ~StageOpen(1) /\ ~StageOpen(2))
  /\ Has("prepare") =>
       (Has("sf.exists") /\ ~StageOpen(1) /\ ~StageOpen(2) /\ ~StageOpen(3))
  /\ Has("launcher") =>
       /\ Has("sf.exists")
       /\ ~StageOpen(1) /\ ~StageOpen(2) /\ ~StageOpen(3) /\ ~StageOpen(4)

\* a call that went through every stage and is now running the launcher
C9_Witness ==
  /\ pc = "launcher"
  /\ Count("configure.settled") = 1
  /\ Count("promisedModal.settled") = 1
  /\ Count("subkey.settled") = 1
  /\ Count("prepare.settled") = 1
  /\ Count("launcher") = 1

(***************************************************************************)
(* C10: with the launch task the only writer of the cave record, the       *)
(* stored secondsRun is, after n playtime ticks, its value when the timer  *)
(* was started (0 if it was unset) plus 10 * n, between the lastTouched    *)
(* writes of the main flow and after them: no tick is counted twice or     *)
(* lost.                                                                   *)
(***************************************************************************)
C10_TicksAddUp ==
  dispatchSecondsRun # Undefined =>
    LET stored == IF market.secondsRun = Undefined THEN 0 ELSE market.secondsRun
    IN /\ stored = dispatchSecondsRun + 10 * Count("tick")
       /\ Has("tick") => market.secondsRun = dispatchSecondsRun + 10 * Count("tick")
       /\ ~Has("tick") => market.secondsRun = cave.secondsRun

\* two ticks fired and the launch is over: 40 seconds became 60
C10_Witness ==
  /\ pc = "done"
  /\ Count("tick") = 2
  /\ Has("touch")
  /\ dispatchSecondsRun = 40
  /\ market.secondsRun = 60

\* the playtime credited since the timer was set, in seconds
Credited == SecondsRunOrZero(market) - dispatchSecondsRun

\* every tick that was due by the time the launcher settled has fired
NoTickOverdue == interval.next > endsAt

\* no tick follows the clearInterval of the cleanup
NoTickAfterCleanup ==
  \A i \in 1..Len(events) :
    events[i] = "clearInterval" =>
      \A j \in (i + 1)..Len(events) : events[j] # "tick"

(***************************************************************************)
(* C11 as stated: when the launch call has settled after the launcher ran  *)
(* for E ms, the playtime credited, C seconds, satisfies                   *)
(* 0 <= E - 1000 C < 10000, and no tick follows the cleanup.               *)
(***************************************************************************)
C11_Original ==
  (LauncherSettled /\ DoStartSettled) =>
    /\ 0 <= Elapsed - 1000 * Credited
    /\ Elapsed - 1000 * Credited < 10000
    /\ NoTickAfterCleanup

(***************************************************************************)
(* C11 as amended: once the launcher has settled E ms after the timer was  *)
(* set, the playtime credited, C seconds, never exceeds the run time and   *)
(* falls short of it by at most one interval (0 <= E - 1000 C <= 10000):   *)
(* by a whole interval only when the launcher settled at the very instant  *)
(* a tick was due and the cleanup cleared the timer before it fired, by    *)
(* less otherwise; after the cleanup the timer is cleared, no tick         *)
(* follows, and the credit is 10 s for each tick that fired.               *)
(***************************************************************************)
C11_CreditWithinOneInterval ==
  LauncherSettled =>
    /\ 0 <= Elapsed - 1000 * Credited
    /\ Elapsed - 1000 * Credited <= 10000
    /\ NoTickOverdue => Elapsed - 1000 * Credited < 10000
    /\ Elapsed - 1000 * Credited = 10000 => interval.next = endsAt
    /\ Credited = 10 * Count("tick")
    /\ Has("clearInterval") =>
         /\ ~interval.active
         /\ NoTickAfterCleanup

\* the launcher settled after exactly 10 s, before the tick due then: nothing
\* was credited
C11_Witness ==
  /\ pc = "done"
  /\ LauncherSettled
  /\ Has("clearInterval")
  /\ Elapsed = 10000
  /\ Credited = 0

\* doStart holds a manifest that passed validateManifest and the name check
\* of the prompt's buttons
HoldsValidManifest ==
  /\ Has("validateManifest")
  /\ manifest # <<>>
  /\ validateManifest(manifest)
  /\ FirstNameless(manifest) = 0

\* action a is action b with its placeholder replaced, on some platform
IsResolved(a, b) ==
  /\ a.name = b.name
  /\ a.scope = b.scope
  /\ a.args = b.args
  /\ \/ a.path = b.path
     \/ \E itchPlatform \in Platforms :
          a.path = ReplaceFirst(b.path, ExtPlaceholder, appExt(itchPlatform))

(***************************************************************************)
(* C12: with a valid manifest of one action, that action is the manifest   *)
(* action and the prompt is never opened; with a valid manifest of two or  *)
(* more actions the prompt is opened exactly once, and never otherwise; if *)
(* the user cancels the prompt, doStart returns normally, having called no *)
(* preparer and no launcher, requested no subkey, set no timer and taken   *)
(* no lock, and start opens no failure modal.                              *)
(***************************************************************************)
C12_PromptOnlyForSeveral ==
  /\ Count("promisedModal") <= 1
  /\ Count("promisedModal.settled") <= Count("promisedModal")
  /\ (HoldsValidManifest /\ Len(manifest) = 1) =>
       /\ ~Has("promisedModal")
       /\ IsResolved(manifestAction, manifest[1])
  /\ (HoldsValidManifest /\ Len(manifest) >= 2) =>
       /\ Count("promisedModal") = 1
       /\ Has("launchTypeForAction") => Count("promisedModal.settled") = 1
  /\ (Has("promisedModal") /\ ~Has("launcher")) =>
       (HoldsValidManifest /\ Len(manifest) >= 2)
  /\ Has("cancel") =>
       /\ Count("promisedModal.settled") = 1
       /\ doStartResult = "returned"
       /\ manifestAction = NoAction
       /\ ~Has("launchTypeForAction")
       /\ ~Has("subkey")
       /\ ~Has("prepare")
       /\ ~Has("launcher")
       /\ ~Has("setInterval")
       /\ ~Has("powerSaveBlocker.start")
       /\ ~Has("handler")
       /\ ~Has("openModal")
       /\ startedAt = Undefined
       /\ ~interval.active
       /\ blockers = {}
       /\ env = {}
       /\ pc = "done" => startResult = "returned"

\* the user cancelled the prompt of a two-action manifest, with the
\* idle-sleep preference set: start returned and nothing was acquired
C12_Witness ==
  /\ pc = "done"
  /\ Len(manifest) = 2
  /\ Count("promisedModal") = 1
  /\ Has("cancel")
  /\ preferences.preventDisplaySleep
  /\ startResult = "returned"

\* the keys a granted subkey adds to the run environment (launch.ts:258-259)
SubkeyEnv == {"ITCHIO_API_KEY", "ITCHIO_API_KEY_EXPIRES_AT"}

(***************************************************************************)
(* C13: once a preparer or the launcher has been called, the run           *)
(* environment holds ITCHIO_API_KEY and ITCHIO_API_KEY_EXPIRES_AT if and   *)
(* only if the selected manifest action has a non-empty scope; otherwise   *)
(* it is empty and no subkey was requested.  If the subkey request fails,  *)
(* doStart throws, and neither a preparer nor the launcher is called.      *)
(***************************************************************************)
C13_SubkeyBeforeDispatch ==
  /\ Count("subkey") <= 1
  /\ env \in {{}, SubkeyEnv}
  /\ env = SubkeyEnv => Count("subkey.settled") = 1
  /\ (Has("prepare") \/ Has("launcher")) =>
       /\ env = SubkeyEnv <=>
            (manifestAction # NoAction /\ manifestAction.scope \notin {None, ""})
       /\ env = {} => ~Has("subkey")
       /\ Count("subkey.settled") = Count("subkey")
  /\ (Has("subkey.settled") /\ env = {}) =>
       /\ doStartResult = "threw"
       /\ e = "Error"
       /\ pc \in {"startCatch", "done"}
       /\ ~Has("prepare")
       /\ ~Has("launcher")
       /\ ~Has("setInterval")
       /\ pc = "done" => Has("handler")

\* the action with an empty scope reached the launcher without a subkey
\* request, in an empty environment
C13_Witness ==
  /\ pc = "launcher"
  /\ manifestAction.scope = ""
  /\ env = {}
  /\ ~Has("subkey")

(***************************************************************************)
(* C14: in every launch attempt through start the failure modal is opened  *)
(* at most once; it is opened exactly once if doStart ended with a fatal   *)
(* error (readiness, manifest, subkey, unsupported launch type, early      *)
(* crash, any other launcher error), and never if doStart returned         *)
(* normally (success, user cancel, Cancelled, late crash).                 *)
(***************************************************************************)
C14_OneFailureModal ==
  /\ Count("openModal") <= 1
  /\ doStartResult = "returned" => ~Has("openModal")
  /\ (pc = "done" /\ doStartResult = "threw") => Count("openModal") = 1

(***************************************************************************)
(* C15: start never throws: whatever fatal error doStart raised, and also  *)
(* when the game fetch or diego.hire of the handler fails, start completes *)
(* without raising to its caller, and the logger is closed exactly once.   *)
(***************************************************************************)
C15_StartNeverThrows ==
  /\ startResult # "threw"
  /\ Count("logger.close") <= 1
  /\ pc = "done" => (startResult = "returned" /\ Count("logger.close") = 1)

\* the rules of the launch-type classifier as the specification lists them
\* beginning with http:// or https://
BeginsWithHttpUrl(path) ==
  \/ StartsWithI(path, <<"h", "t", "t", "p", ":", "/", "/">>)
  \/ StartsWithI(path, <<"h", "t", "t", "p", "s", ":", "/", "/">>)

\* the reference classifier: the first rule that matches decides
ReferenceLaunchType(path, os, probe) ==
  IF \E ext \in {<<".", "a", "p", "p">>, <<".", "e", "x", "e">>,
                  <<".", "b", "a", "t">>, <<".", "s", "h">>} :
       EndsWithI(path, ext)
  THEN "native"
  ELSE IF \E ext \in {<<".", "h", "t", "m">>, <<".", "h", "t", "m", "l">>} :
            EndsWithI(path, ext)
  THEN "html"
  ELSE IF BeginsWithHttpUrl(path) THEN "external"
  ELSE IF \/ (os = "linux" /\ probe.linuxExecutable)
          \/ (os = "osx" /\ probe.macExecutable)
  THEN "native"
  ELSE "shell"

(***************************************************************************)
(* C16: for every action path, platform and probe result,                  *)
(* launchTypeForAction returns what the reference classifier returns:      *)
(* native for the extensions .app, .exe, .bat, .sh (whatever the case),    *)
(* else html for .htm and .html, else external for a path beginning with   *)
(* http:// or https://, else native for a Linux executable on linux or a   *)
(* macOS executable on osx, else shell.  The result is one of the four     *)
(* launch types, and fnout.path is called only when the first three rules  *)
(* did not match.                                                          *)
(***************************************************************************)
C16_MatchesReference ==
  pc = "classified" =>
    /\ launchType = ReferenceLaunchType(actionPath, platform, sniffRes)
    /\ launchType \in LaunchTypes
    /\ Has("fnout.path") =>
         ReferenceLaunchType(actionPath, platform, sniffRes) \in {"native", "shell"}
    /\ Has("fnout.path") =>
         ~\E s \in SniffResults :
            ReferenceLaunchType(actionPath, platform, s) \in {"html", "external"}

\* the preparer was called and threw
PrepareThrew ==
  /\ Has("prepare.settled")
  /\ pc \in {"startCatch", "done"}
  /\ ~Has("launcher")

(***************************************************************************)
(* C17: for the launch type that has a preparer (native) the launcher is   *)
(* called only after the preparer, called once, has settled without        *)
(* throwing, so the two never run at the same time; if the preparer throws *)
(* anything, Cancelled and Crash included, the launcher is never called,   *)
(* no timer is set, no lock is taken, and what it threw is thrown by       *)
(* doStart to start's handler.  For a launch type without a preparer the   *)
(* launcher is called without one; a launch type without a launcher makes  *)
(* doStart throw, with neither a preparer nor a launcher called.           *)
(***************************************************************************)
C17_PrepareBeforeLaunch ==
  /\ Count("prepare") <= 1
  /\ Has("prepare") => launchType = "native"
  /\ Has("launcher") =>
       /\ launchType \in LaunchTypes
       /\ launchType = "native" =>
            (Count("prepare") = 1 /\ Count("prepare.settled") = 1)
       /\ launchType # "native" => ~Has("prepare")
  /\ (Has("prepare") /\ ~Has("prepare.settled")) =>
       (pc = "prepare" /\ ~Has("launcher") /\ ~Has("setInterval"))
  /\ Has("prepare.settled") =>
       \/ pc = "begin" /\ e = NoError
       \/ Has("launcher")
       \/ PrepareThrew
  /\ PrepareThrew =>
       /\ doStartResult = "threw"
       /\ e \in Thrown
       /\ ~Has("setInterval")
       /\ ~Has("powerSaveBlocker.start")
       /\ startedAt = Undefined
       /\ blockers = {}
       /\ pc = "done" => Has("handler")
  /\ launchType \notin (LaunchTypes \cup {None}) =>
       /\ ~Has("prepare")
       /\ ~Has("launcher")
       /\ pc = "done" => (doStartResult = "threw" \/ Has("cancel"))

\* the preparer threw Cancelled: start's handler ran, no launcher was called
C17_Witness ==
  /\ pc = "done"
  /\ Count("prepare.settled") = 1
  /\ e = "Cancelled"
  /\ doStartResult = "threw"
  /\ Has("handler")
  /\ ~Has("launcher")

\* a preparer or the launcher was called for the record, not for a manifest
\* action
DispatchedByRecord ==
  /\ Has("prepare") \/ Has("launcher")
  /\ manifestAction = NoAction

\* the launch type of record c, native when it has none
LaunchTypeOf(c) == IF c.launchType = None THEN "native" ELSE c.launchType

(***************************************************************************)
(* C18: when no manifest action is selected, the launcher and the preparer *)
(* doStart calls are those of the launch type of the record as reloaded    *)
(* after the repair, the one that passed the second readiness check, not   *)
(* of the launch type the record had before the repair.                    *)
(***************************************************************************)
C18_DispatchByReloadedRecord ==
  DispatchedByRecord =>
    /\ launchType = LaunchTypeOf(cave)
    /\ Has("prepare") <=> LaunchTypeOf(cave) = "native"

(***************************************************************************)
(* C19: whenever doStart calls the native launcher without a manifest      *)
(* action, the record it launches has at least one executable, and         *)
(* whenever it calls the html launcher without a manifest action the       *)
(* record has a game path, also when the record has no launch type and     *)
(* native is taken by default.                                             *)
(***************************************************************************)
C19_DispatchedRecordIsReady ==
  (Has("launcher") /\ manifestAction = NoAction) =>
    /\ launchType = "native" => cave.executables > 0
    /\ launchType = "html" => cave.gamePath

(***************************************************************************)
(* C20: when the manifest has several actions and the user presses the     *)
(* i-th button of the prompt, the manifest action that goes to the         *)
(* preparer and the launcher is the i-th action of the manifest (its path  *)
(* with the placeholder replaced, its args, its scope), also when two      *)
(* actions have the same name; a response other than cancel never leaves   *)
(* the launch without a manifest action.                                   *)
(***************************************************************************)
C20_PickedActionIsLaunched ==
  picked # 0 =>
    /\ manifestAction # NoAction
    /\ IsResolved(manifestAction, manifest[picked])

====
